---- MODULE Spec2Model ----
(***************************************************************************)
(* Reservoir field-reporting dashboard: the device-local enrollment /      *)
(* authentication vault and its orchestration (services/authService.ts,    *)
(* components/Auth, App.tsx) and the data service with its local cache     *)
(* (services/dataService), the Dashboard with its DataEntryForm, and the   *)
(* geofence and face checks of services/geminiService.                     *)
(*                                                                         *)
(* The specifications share the variables:                                 *)
(*   Spec         the App / Auth / authService state machine               *)
(*   SpecFresh    Spec on a device that was never enrolled                 *)
(*   SpecRejecting  Spec with auth-service calls that reject               *)
(*   SpecVerify   the Verify flow of an enrolled device, with fairness     *)
(*   SpecProfile  getUserProfile applied to bounded inputs                 *)
(*   SpecData     the data service over the remote table and the cache     *)
(*   SpecDash     the Dashboard and its DataEntryForm                      *)
(*   SpecForm     the geofence step of the DataEntryForm                   *)
(***************************************************************************)
EXTENDS Integers, Sequences, FiniteSets, Bags, TLC

VARIABLES
    vault,        \* localStorage['lrw_biometric_vault']
    lastVaultOp,  \* history: the last operation on the vault key
    accounts,     \* remote auth service: credential id -> user_metadata
    session,      \* remote auth session: 0 or the signed-in credential id
    nextCred,     \* the next (timestamp, random suffix) the device draws
    loading,      \* App: loading
    currentUser,  \* App: currentUser
    auth,         \* the mounted Auth component: state and refs
    tasks,        \* promises in flight
    console,      \* the latest console line: a scan's err.message, the session-check error or an unhandled rejection
    gpIn,         \* SpecProfile: the arguments and the store's responses
    gpOut,        \* SpecProfile: the value getUserProfile returned
    remoteTable,  \* SpecData: rows of reservoir_entries in the remote db
    cache,        \* SpecData: localStorage['reservoir_entries']
    lastCall,     \* SpecData: the last data-service call and its result
    dash          \* SpecDash: the mounted Dashboard and its DataEntryForm

vars == <<vault, lastVaultOp, accounts, session, nextCred, loading,
          currentUser, auth, tasks, console, gpIn, gpOut, remoteTable, cache, lastCall,
          dash>>

authVars == <<vault, lastVaultOp, accounts, session, nextCred, loading,
              currentUser, auth, tasks, console>>
profileVars == <<gpIn, gpOut>>
dataVars == <<remoteTable, cache, lastCall>>
dashVars == <<dash>>

----------------------------------------------------------------------------
(* Values *)

Null == "null"          \* JS null / undefined (of a string-valued slot)
Absent == "absent"      \* a property the object does not carry

SUPER_ADMIN == "SUPER_ADMIN"
ADMIN == "ADMIN"
DATA_ENTRY_WORKER == "DATA_ENTRY_WORKER"
UserRole == {SUPER_ADMIN, ADMIN, DATA_ENTRY_WORKER}

\* JS truthiness of a string-or-missing property
Falsy(x) == x \in {Null, Absent, ""}

\* null in a slot that otherwise holds an object of the given shape
NoUser == [id |-> 0, name |-> Null, role |-> Null]                \* User | null
NoRow == [id |-> 0, name |-> Null, role |-> Null]                 \* profiles row | null
NoMeta == [name |-> Null, role |-> Null]                          \* user_metadata missing
NoAuthUser == [id |-> 0, user_metadata |-> NoMeta]                \* auth user | undefined

----------------------------------------------------------------------------
(* getUserProfile *)

maxAttempts == 5

\* the n-th answer of supabase.from('profiles').select('*').eq('id', userId).single()
ProfileQuery(responses, n) ==
    IF n \in DOMAIN responses THEN responses[n]
    ELSE [error |-> TRUE, profile |-> NoRow]

ProfileFound(r) == ~r.error /\ r.profile # NoRow

MoreAttempts_offByOne(attempts) == attempts <= maxAttempts
MoreAttempts(attempts) == attempts < maxAttempts

RowToUser(profile) ==
    [id |-> profile.id, name |-> profile.name, role |-> profile.role]

HasFallback(authUserFallback) ==
    authUserFallback # NoAuthUser /\ authUserFallback.user_metadata # NoMeta

FallbackName(meta) == IF Falsy(meta.name) THEN "Unknown User" ELSE meta.name

FallbackRole_fixed(meta) == DATA_ENTRY_WORKER
FallbackRole(meta) == IF Falsy(meta.role) THEN DATA_ENTRY_WORKER ELSE meta.role

MetaToUser(userId, meta) ==
    [id |-> userId, name |-> FallbackName(meta), role |-> FallbackRole(meta)]

\* The result carries two observations besides {appUser, error}: the number of
\* queries issued and which branch produced the user.
RECURSIVE getUserProfileFrom(_, _, _, _)
getUserProfileFrom(userId, authUserFallback, responses, attempts) ==
    IF MoreAttempts(attempts)
    THEN LET r == ProfileQuery(responses, attempts + 1) IN
         IF ProfileFound(r)
         THEN [appUser |-> RowToUser(r.profile), error |-> Null,
               queries |-> attempts + 1, via |-> "profiles"]
         ELSE getUserProfileFrom(userId, authUserFallback, responses, attempts + 1)
    ELSE IF HasFallback(authUserFallback)
         THEN [appUser |-> MetaToUser(userId, authUserFallback.user_metadata),
               error |-> Null, queries |-> attempts, via |-> "metadata"]
         ELSE [appUser |-> NoUser,
               error |-> "Profile could not be loaded. Please try logging out and logging back in.",
               queries |-> attempts, via |-> "none"]

getUserProfile(userId, authUserFallback, responses) ==
    getUserProfileFrom(userId, authUserFallback, responses, 0)

----------------------------------------------------------------------------
(* SpecProfile: getUserProfile on bounded inputs *)

Names == {"J. Perera"}
FormRoles == {DATA_ENTRY_WORKER, ADMIN}     \* the options of the role select that are tried

\* one answer of the profiles query: an error, no error and no row, or the row
QueryResponses(row) ==
    {[error |-> TRUE, profile |-> NoRow],
     [error |-> FALSE, profile |-> NoRow],
     [error |-> FALSE, profile |-> row]}

\* what a caller may pass as authUserFallback
FallbackInputs(userId) ==
    {NoAuthUser, [id |-> userId, user_metadata |-> NoMeta]}
    \cup {[id |-> userId, user_metadata |-> [name |-> n, role |-> r]] :
            n \in Names \cup {Absent}, r \in UserRole \cup {Absent}}

ProfileInputs ==
    UNION {
      [userId : {1},
       authUserFallback : FallbackInputs(1),
       responses : [1..maxAttempts -> QueryResponses([id |-> 1, name |-> "K. Silva", role |-> r])]]
      : r \in UserRole }

gpPending == [appUser |-> NoUser, error |-> Null, queries |-> 0, via |-> "pending"]
gpIdle == [userId |-> 0, authUserFallback |-> NoAuthUser, responses |-> <<>>]

ResolveProfile ==
    /\ gpOut = gpPending
    /\ gpOut' = getUserProfile(gpIn.userId, gpIn.authUserFallback, gpIn.responses)
    /\ UNCHANGED <<gpIn, authVars, dataVars, dashVars>>

\* C6: when every poll fails and the auth response's metadata is supplied,
\* getUserProfile returns without error, after at most 5 polls, the profile
\* built from the metadata: the metadata's role, or DATA_ENTRY_WORKER when the
\* metadata carries none.
AllPollsFail(responses) ==
    \A n \in 1..5 : responses[n].error \/ responses[n].profile = NoRow

C6_FallbackProfile ==
    (/\ gpOut # gpPending
     /\ AllPollsFail(gpIn.responses)
     /\ gpIn.authUserFallback # NoAuthUser
     /\ gpIn.authUserFallback.user_metadata # NoMeta)
    => LET meta == gpIn.authUserFallback.user_metadata IN
       /\ gpOut.error = Null
       /\ gpOut.appUser # NoUser
       /\ gpOut.queries <= 5
       /\ gpOut.appUser.id = gpIn.userId
       /\ meta.name # Absent => gpOut.appUser.name = meta.name
       /\ gpOut.appUser.role =
            IF meta.role = Absent THEN "DATA_ENTRY_WORKER" ELSE meta.role

C6_Witness ==
    /\ gpOut # gpPending
    /\ AllPollsFail(gpIn.responses)
    /\ gpIn.authUserFallback # NoAuthUser
    /\ gpIn.authUserFallback.user_metadata = [name |-> "J. Perera", role |-> Absent]
    /\ gpOut.appUser.role = "DATA_ENTRY_WORKER"
    /\ gpOut.via = "metadata"

\* C7: getUserProfile issues at most 5 queries and stops at the first query
\* that yields a row: the number of queries it issued is the index of the
\* first answer with a row, and the user it returns is that row.
FirstRow(responses) ==
    LET hits == {n \in 1..5 : ~responses[n].error /\ responses[n].profile # NoRow}
    IN IF hits = {} THEN 0 ELSE CHOOSE n \in hits : \A m \in hits : n <= m

C7_BoundedPolling ==
    gpOut # gpPending =>
       /\ gpOut.queries <= 5
       /\ LET k == FirstRow(gpIn.responses) IN
          IF k > 0
          THEN /\ gpOut.queries = k
               /\ gpOut.error = Null
               /\ gpOut.appUser.id = gpIn.responses[k].profile.id
               /\ gpOut.appUser.name = gpIn.responses[k].profile.name
               /\ gpOut.appUser.role = gpIn.responses[k].profile.role
          ELSE gpOut.queries = 5

C7_Witness ==
    /\ gpOut # gpPending
    /\ FirstRow(gpIn.responses) = 3
    /\ ~gpIn.responses[5].error /\ gpIn.responses[5].profile # NoRow
    /\ gpOut.queries = 3


----------------------------------------------------------------------------
(* Data service: remote table reservoir_entries and the local cache *)

MaxEntryId == 2     \* ids Date.now().toString() can produce
MaxCache == 2       \* records the local cache holds at most

EntryIds == 1..MaxEntryId
Timestamps == {1, 2}
NoEntry == [id |-> 0, timestamp |-> 0, locationName |-> Null]
ReservoirEntry == [id : EntryIds, timestamp : Timestamps, locationName : {"Kala Wewa"}]

\* camelCase entry -> snake_case row, and back
DbPayload(entry) ==
    [id |-> entry.id, timestamp |-> entry.timestamp, location_name |-> entry.locationName]
MapRow_noLocation(row) ==
    [id |-> row.id, timestamp |-> row.timestamp, locationName |-> Null]
MapRow(row) ==
    [id |-> row.id, timestamp |-> row.timestamp, locationName |-> row.location_name]

\* localStorage holds a string: <<>> is "no such key", otherwise the JSON text
NoItem == <<>>
JsonStringify(entries) == <<"json", entries>>
JsonParse(item) == item[2]

\* const saved = getItem(KEY); saved ? JSON.parse(saved) : []
SavedEntries(item) == IF item # NoItem THEN JsonParse(item) ELSE <<>>

Range(seq) == {seq[i] : i \in DOMAIN seq}

\* entries.filter(e => e.id !== id)
FilterOutId_keepsAll(entries, id) == entries
RECURSIVE FilterOutId(_, _)
FilterOutId(entries, id) ==
    IF entries = <<>> THEN <<>>
    ELSE IF Head(entries).id # id
         THEN <<Head(entries)>> \o FilterOutId(Tail(entries), id)
         ELSE FilterOutId(Tail(entries), id)

\* outcomes of one call to the remote database
InsertOutcomes == {"ok", "error", "PGRST205", "throw"}

\* addEntry's local mirror: [entry, ...entries]
Mirror_dropped(entry, entries) == entries
Mirror_overwrites(entry, entries) == <<entry>>
Mirror_unlessPresent(entry, entries) ==
    IF entry \in Range(entries) THEN entries ELSE <<entry>> \o entries
Mirror(entry, entries) == <<entry>> \o entries

NoCall == [op |-> "none", entry |-> NoEntry, remote |-> "none", local |-> "none",
           returned |-> TRUE, data |-> <<>>, source |-> "none",
           isMissingTable |-> FALSE]

\* addEntry(entry): the remote insert is best-effort; the local mirror is
\* attempted whatever the remote outcome, and a throwing localStorage is
\* swallowed with a warning.
addEntry(entry, remote, setItemThrows) ==
    /\ Len(SavedEntries(cache)) < MaxCache
    /\ remote = "ok" => \A row \in remoteTable : row.id # entry.id
    /\ remoteTable' = IF remote = "ok" THEN remoteTable \cup {DbPayload(entry)}
                      ELSE remoteTable
    /\ cache' = IF setItemThrows THEN cache
                ELSE JsonStringify(Mirror(entry, SavedEntries(cache)))
    /\ lastCall' = [NoCall EXCEPT !.op = "addEntry", !.entry = entry,
                                  !.remote = remote,
                                  !.local = IF setItemThrows THEN "throw" ELSE "ok"]

AddEntry ==
    /\ \E entry \in ReservoirEntry, remote \in InsertOutcomes, setItemThrows \in BOOLEAN :
          addEntry(entry, remote, setItemThrows)
    /\ UNCHANGED <<authVars, profileVars, dashVars>>

\* deleteEntry(id): remote delete best-effort; the cache is rewritten without
\* the id when the key exists. The local part is not guarded: a throwing
\* setItem leaves deleteEntry by exception.
deleteEntry(id, remote, setItemThrows) ==
    /\ remoteTable' = IF remote = "ok" THEN {row \in remoteTable : row.id # id}
                      ELSE remoteTable
    /\ cache' = IF cache # NoItem /\ ~setItemThrows
                THEN JsonStringify(FilterOutId(JsonParse(cache), id))
                ELSE cache
    /\ lastCall' = [NoCall EXCEPT !.op = "deleteEntry", !.entry = [NoEntry EXCEPT !.id = id],
                                  !.remote = remote,
                                  !.local = IF cache = NoItem THEN "skip"
                                            ELSE IF setItemThrows THEN "throw" ELSE "ok",
                                  !.returned = (cache = NoItem \/ ~setItemThrows)]

DeleteOutcomes == {"ok", "error", "throw"}
DeleteEntry ==
    /\ \E id \in EntryIds, remote \in DeleteOutcomes, setItemThrows \in BOOLEAN :
          deleteEntry(id, remote, setItemThrows)
    /\ UNCHANGED <<authVars, profileVars, dashVars>>

\* .order('timestamp', {ascending: false}): rows of equal timestamp come in
\* an order the database picks
RECURSIVE OrderByTimestampDesc(_)
OrderByTimestampDesc(rows) ==
    IF rows = {} THEN <<>>
    ELSE LET r == CHOOSE x \in rows : \A y \in rows : x.timestamp >= y.timestamp
         IN <<r>> \o OrderByTimestampDesc(rows \ {r})

\* map over the rows read (line 22)
RECURSIVE MapRows(_)
MapRows(rows) ==
    IF rows = <<>> THEN <<>> ELSE <<MapRow(Head(rows))>> \o MapRows(Tail(rows))

\* the catch's classification (lines 43-49)
IsMissingTable_anyError(remote) == TRUE
IsMissingTable(remote) == remote = "PGRST205"

\* getEntries(): remote is the outcome of the select: rows, an error object
\* (of code PGRST205 or another), or an exception
ReadOutcomes == {"ok", "error", "PGRST205", "throw"}
getEntries(remote) ==
    /\ lastCall' =
          IF remote = "ok"
          THEN [NoCall EXCEPT !.op = "getEntries", !.remote = remote,
                              !.local = "untouched",
                              !.data = MapRows(OrderByTimestampDesc(remoteTable)),
                              !.source = "MYSQL"]
          ELSE [NoCall EXCEPT !.op = "getEntries", !.remote = remote,
                              !.local = "read",
                              !.data = SavedEntries(cache),
                              !.source = "LOCAL",
                              !.isMissingTable = IsMissingTable(remote)]
    /\ UNCHANGED <<remoteTable, cache>>

GetEntries ==
    /\ \E remote \in ReadOutcomes : getEntries(remote)
    /\ UNCHANGED <<authVars, profileVars, dashVars>>

InitData ==
    /\ remoteTable = {}
    /\ cache = NoItem
    /\ lastCall = NoCall


C5_Idempotent ==
    [][\A entry \in ReservoirEntry, remote \in InsertOutcomes :
          (/\ lastCall.op = "addEntry" /\ lastCall.entry = entry
           /\ lastCall.local = "ok"
           /\ addEntry(entry, remote, FALSE))
          => cache' = cache]_vars

\* C5 (amended): the mirror is an unconditional prepend. A second addEntry of
\* the same record puts a second copy in front of the first; only the set of
\* records present is the same as after one call.
C5_PrependsAgain ==
    [][\A entry \in ReservoirEntry, remote \in InsertOutcomes :
          (/\ lastCall.op = "addEntry" /\ lastCall.entry = entry
           /\ lastCall.local = "ok"
           /\ addEntry(entry, remote, FALSE))
          => /\ SavedEntries(cache') = <<entry>> \o SavedEntries(cache)
             /\ Range(SavedEntries(cache')) = Range(SavedEntries(cache))]_vars

C5_Witness ==
    /\ lastCall.op = "addEntry"
    /\ lastCall.local = "ok"
    /\ Len(SavedEntries(cache)) >= 2
    /\ SavedEntries(cache)[1] = lastCall.entry
    /\ SavedEntries(cache)[2] = lastCall.entry


----------------------------------------------------------------------------
(* Local vault (authService.ts) *)

MaxCreds == 1       \* credential pairs enrollDevice generates in one run

\* credential 1 is the pair an earlier launch may have left; a run draws 2, 3, ...
CredIds == 1..(MaxCreds + 1)
NoVault == <<>>     \* localStorage.getItem(BIOMETRIC_VAULT_KEY) === null

\* email = officer.<timestamp>.<suffix>@..., password = SECURE_<timestamp>_<suffix>!@#
\* c stands for the (timestamp, random suffix) drawn
Credentials(c) == [email |-> <<"officer", c>>, password |-> <<"SECURE", c>>]

\* btoa(JSON.stringify({email, password})) and JSON.parse(atob(vault))
VaultData(creds) == <<"b64", creds.email, creds.password>>
\* a stored value that atob / JSON.parse reject
CorruptVault == <<"garbled">>
CanUnlock(blob) == Len(blob) = 3 /\ blob[1] = "b64"
Unlock(blob) == [email |-> blob[2], password |-> blob[3]]

isDeviceEnrolled(v) == v # NoVault

resetEnrollment_keeps(v) == v
resetEnrollment(v) == NoVault

----------------------------------------------------------------------------
(* Remote auth service and profile store, as the orchestrator sees them *)

NoAccount == [name |-> "none", role |-> "none"]

\* the auth user object the service returns for a registered credential id
AuthUser(c) == [id |-> c, user_metadata |-> accounts[c]]

\* signInWithPassword succeeds only for a registered email with its password
Registered(creds) ==
    \E c \in CredIds : creds = Credentials(c) /\ accounts[c] # NoAccount
AccountOf(creds) == CHOOSE c \in CredIds : creds = Credentials(c)

\* The profiles row of a user is written by a database trigger from the
\* sign-up metadata; a query sees it or does not (replication race, outage).
TriggerRow(c) ==
    IF accounts[c] = NoMeta
    THEN [id |-> c, name |-> "J. Perera", role |-> ADMIN]
    ELSE [id |-> c, name |-> accounts[c].name, role |-> accounts[c].role]

\* which of the polls of one getUserProfile call see the row: the row is
\* visible from the first poll on, from the last poll on, or not within the call
PollPatterns ==
    {[n \in 1..maxAttempts |-> n >= k] : k \in {1, maxAttempts, maxAttempts + 1}}
PollAnswers(c, seen) ==
    [n \in 1..maxAttempts |->
        IF seen[n] THEN [error |-> FALSE, profile |-> TriggerRow(c)]
        ELSE [error |-> TRUE, profile |-> NoRow]]

\* Biometric gate: the remote vision model answers with a JSON verdict,
\* answers with no text, answers with a text that JSON.parse rejects, or the
\* call fails. The call and JSON.parse are both inside the try (lines 129-167).
GateReplies == {"authorized", "rejected", "empty", "malformed", "throw"}
analyzeFaceForAccess_failOpen(reply) ==
    [authorized |-> reply # "rejected", reason |-> "ok"]
analyzeFaceForAccess(reply) ==
    CASE reply = "authorized" -> [authorized |-> TRUE, reason |-> "ok"]
      [] reply = "rejected" -> [authorized |-> FALSE, reason |-> "no live face"]
      [] reply = "empty" -> [authorized |-> FALSE, reason |-> "No response from AI"]
      [] OTHER -> [authorized |-> FALSE,
                   reason |-> "Biometric Service Unavailable. Check connection."]

----------------------------------------------------------------------------
(* Auth component *)

AuthInit ==
    [mounted |-> FALSE,
     mode |-> "CHECK", isLoading |-> FALSE, error |-> Null, statusMessage |-> "",
     name |-> "", role |-> DATA_ENTRY_WORKER, isEnrollmentStarted |-> FALSE,
     stream |-> FALSE,          \* streamRef.current # null
     scanInterval |-> Null,     \* scanIntervalRef: null, or the mode its callback closed over
     isScanning |-> FALSE,      \* isScanningRef.current
     camPending |-> {},         \* startCamera calls awaiting getUserMedia, by the mode closed over
     videoSrc |-> FALSE,        \* the mounted <video> has a srcObject
     onloaded |-> Null,         \* its onloadedmetadata handler: the mode closed over
     metaPending |-> FALSE]     \* a loadedmetadata event is due

\* the <video>/<canvas> pair is rendered (line 221)
HasVideo(a) == a.mounted /\ (a.mode = "VERIFY" \/ a.isEnrollmentStarted)

\* effect 2 (lines 37-45): on a change of mode or isEnrollmentStarted the
\* cleanup stops the camera and the loop, then the camera is started when wanted.
\* Effect 3 (lines 48-56) runs in the same commit, after effect 2 has nulled
\* streamRef or called startCamera, whose stream arrives in a later task: it
\* finds streamRef.current null and arms nothing.
Render(old, new) ==
    LET depsChanged == \/ old.mode # new.mode
                       \/ old.isEnrollmentStarted # new.isEnrollmentStarted
                       \/ old.mounted # new.mounted
        a1 == IF HasVideo(old) /\ HasVideo(new) THEN new
              ELSE [new EXCEPT !.videoSrc = FALSE, !.onloaded = Null, !.metaPending = FALSE]
        a2 == IF depsChanged THEN [a1 EXCEPT !.stream = FALSE, !.scanInterval = Null]
              ELSE a1
    IN IF depsChanged /\ (a2.mode = "VERIFY" \/ (a2.mode = "ENROLL" /\ a2.isEnrollmentStarted))
       THEN [a2 EXCEPT !.camPending = @ \cup {a2.mode}]
       ELSE a2

\* effect 1 (lines 31-34) at mount
MountMode_always(v) == "VERIFY"
MountMode_enroll(v) == "ENROLL"
MountMode(v) == IF isDeviceEnrolled(v) THEN "VERIFY" ELSE "ENROLL"

MountAuth(v) ==
    LET a0 == [AuthInit EXCEPT !.mounted = TRUE]
    IN Render(a0, [a0 EXCEPT !.mode = MountMode(v)])

\* captureImage (lines 91-108): null without the elements or before the video plays
CanCapture(a) == HasVideo(a) /\ a.videoSrc

----------------------------------------------------------------------------
(* Promises in flight *)

Task(kind, pc) ==
    [kind |-> kind, pc |-> pc, vault |-> NoVault, name |-> "", role |-> "",
     cred |-> 0, user |-> 0, stale |-> FALSE]

\* tasks is the bag of the promises in flight
Started(ts, t) == ts (+) SetToBag({t})
Settled(ts, t) == ts (-) SetToBag({t})
InFlight(ts, kind) ==
    LET S == {t \in BagToSet(ts) : t.kind = kind}
        RECURSIVE Sum(_)
        Sum(T) == IF T = {} THEN 0
                  ELSE LET t == CHOOSE x \in T : TRUE IN CopiesIn(t, ts) + Sum(T \ {t})
    IN Sum(S)

\* unmounting Auth: its refs and setters are gone; the timer of a countdown
\* then captures nothing; faceLogin / enrollDevice calls keep running
OrphanOf(t) == [t EXCEPT !.stale = (t.kind \in {"verify", "enroll"})]
Orphan(ts) ==
    BagOfAll(OrphanOf, [t \in {x \in BagToSet(ts) : x.kind # "countdown"} |-> ts[t]])

\* App renders Auth iff !loading && !currentUser (App.tsx 37-47)
AuthAfter(user, a, v) ==
    IF user # NoUser THEN AuthInit
    ELSE IF a.mounted THEN a ELSE MountAuth(v)
TasksAfter(user, a, ts) ==
    IF user # NoUser /\ a.mounted THEN Orphan(ts) ELSE ts


----------------------------------------------------------------------------
(* authService.signIn and getCurrentUser *)

\* signIn (lines 41-51): reply is the auth service's answer to
\* signInWithPassword; the result also says which session was established
signIn_noErrorCheck(creds, reply, seen) ==
    IF ~Registered(creds)
    THEN [appUser |-> NoUser, error |-> "Invalid login credentials", session |-> 0]
    ELSE LET c == AccountOf(creds)
             p == getUserProfile(c, AuthUser(c), PollAnswers(c, seen))
         IN [appUser |-> p.appUser, error |-> p.error, session |-> c]
signIn(creds, reply, seen) ==
    IF reply # "ok" \/ ~Registered(creds)
    THEN [appUser |-> NoUser, error |-> "Invalid login credentials", session |-> 0]
    ELSE LET c == AccountOf(creds)
             p == getUserProfile(c, AuthUser(c), PollAnswers(c, seen))
         IN [appUser |-> p.appUser, error |-> p.error, session |-> c]

\* getCurrentUser (lines 60-66) for the session user u (0: no session)
getCurrentUser(u, seen) ==
    IF u = 0 THEN NoUser
    ELSE getUserProfile(u, AuthUser(u), PollAnswers(u, seen)).appUser

----------------------------------------------------------------------------
(* App.tsx *)

\* checkUser (lines 12-25): the session check of the mount effect resolves
CheckUser ==
    /\ loading
    /\ \E seen \in PollPatterns :
         LET user == getCurrentUser(session, seen) IN
         /\ currentUser' = user
         /\ auth' = AuthAfter(user, auth, vault)
    /\ loading' = FALSE
    /\ UNCHANGED <<vault, lastVaultOp, accounts, session, nextCred, tasks,
                   console, profileVars, dataVars, dashVars>>

\* handleLoginSuccess (lines 27-30) resolves: the getCurrentUser it awaited
\* read the session when it was called (task.user)
LoginResolved(t) ==
    /\ t.kind = "resolve"
    /\ \E seen \in PollPatterns :
         LET user == getCurrentUser(t.user, seen)
             rest == Settled(tasks, t) IN
         /\ currentUser' = user
         /\ auth' = AuthAfter(user, auth, vault)
         /\ tasks' = TasksAfter(user, auth, rest)
    /\ UNCHANGED <<vault, lastVaultOp, accounts, session, nextCred, loading,
                   console, profileVars, dataVars, dashVars>>

\* handleLogout (lines 32-35)
Logout ==
    /\ ~loading
    /\ currentUser # NoUser
    /\ session' = 0
    /\ currentUser' = NoUser
    /\ auth' = AuthAfter(NoUser, auth, vault)
    /\ UNCHANGED <<vault, lastVaultOp, accounts, nextCred, loading, tasks,
                   console, profileVars, dataVars, dashVars>>

\* onLoginSuccess(): handleLoginSuccess starts getCurrentUser, which reads the session
OnLoginSuccess(ts, sess) == Started(ts, [Task("resolve", "profile") EXCEPT !.user = sess])

\* A call of the auth service can also reject its promise (the request never
\* got an answer). What the browser console then shows for a rejection that
\* nobody handles:
Uncaught == "Uncaught (in promise)"

\* checkUser (lines 12-25) when getCurrentUser rejects: the catch logs, the
\* finally ends the loading screen
CheckUserRejected ==
    /\ loading
    /\ loading' = FALSE
    /\ console' = "Session check failed"
    /\ auth' = AuthAfter(currentUser, auth, vault)
    /\ UNCHANGED <<vault, lastVaultOp, accounts, session, nextCred, currentUser,
                   tasks, profileVars, dataVars, dashVars>>

\* handleLoginSuccess (lines 27-30) when getCurrentUser rejects: there is no
\* try/catch, and Auth calls onLoginSuccess() without awaiting it (Auth line
\* 135), so the rejection is handled nowhere and setCurrentUser is not reached
LoginRejected(t) ==
    /\ t.kind = "resolve"
    /\ tasks' = Settled(tasks, t)
    /\ console' = Uncaught
    /\ UNCHANGED <<vault, lastVaultOp, accounts, session, nextCred, loading,
                   currentUser, auth, profileVars, dataVars, dashVars>>

\* handleLogout (lines 32-35) when signOut rejects: setCurrentUser(null) is
\* not reached and the onClick handler's promise is handled nowhere
LogoutRejected ==
    /\ ~loading
    /\ currentUser # NoUser
    /\ console' = Uncaught
    /\ UNCHANGED <<vault, lastVaultOp, accounts, session, nextCred, loading,
                   currentUser, auth, tasks, profileVars, dataVars, dashVars>>

----------------------------------------------------------------------------
(* Auth: camera and scanning loop *)

\* startCamera (lines 58-70): getUserMedia resolves
CameraStarted(m) ==
    /\ m \in auth.camPending
    /\ auth' = IF HasVideo(auth)
               THEN [auth EXCEPT !.camPending = @ \ {m}, !.stream = TRUE,
                                 !.videoSrc = TRUE, !.onloaded = m, !.metaPending = TRUE]
               ELSE [auth EXCEPT !.camPending = @ \ {m}, !.stream = TRUE]
    /\ UNCHANGED <<vault, lastVaultOp, accounts, session, nextCred, loading,
                   currentUser, tasks, console, profileVars, dataVars, dashVars>>

\* startCamera (lines 71-74): getUserMedia rejects
CameraDenied(m) ==
    /\ m \in auth.camPending
    /\ auth' = [auth EXCEPT !.camPending = @ \ {m},
                            !.error = "Camera access denied."]
    /\ UNCHANGED <<vault, lastVaultOp, accounts, session, nextCred, loading,
                   currentUser, tasks, console, profileVars, dataVars, dashVars>>

\* startScanningLoop (lines 111-123), called from a closure over mode m
startScanningLoop(a, m) ==
    IF a.scanInterval # Null THEN a ELSE [a EXCEPT !.scanInterval = m]

\* video.onloadedmetadata (lines 67-69)
LoadedMetadata ==
    /\ auth.metaPending
    /\ auth' = LET a == [auth EXCEPT !.metaPending = FALSE] IN
               IF auth.onloaded = "VERIFY" THEN startScanningLoop(a, "VERIFY") ELSE a
    /\ UNCHANGED <<vault, lastVaultOp, accounts, session, nextCred, loading,
                   currentUser, tasks, console, profileVars, dataVars, dashVars>>

\* the interval callback's guard (line 116)
TickSkips_noGuard(a) == a.scanInterval # "VERIFY"
TickSkips(a) == a.isScanning \/ a.scanInterval # "VERIFY"

\* handleAutoVerify's catch (lines 137-143)
ScanFailed_keepsGuard(a) ==
    [a EXCEPT !.statusMessage = "Adjust face position...", !.isLoading = FALSE]
ScanFailed(a) ==
    [a EXCEPT !.statusMessage = "Adjust face position...", !.isLoading = FALSE,
              !.isScanning = FALSE]

\* handleAutoVerify's entry (lines 126-129)
ScanStarted(a) ==
    [a EXCEPT !.isScanning = TRUE, !.isLoading = TRUE,
              !.statusMessage = "Scanning...", !.error = Null]

\* One tick of the interval (lines 115-122) up to faceLogin's first await
\* (lines 166-174): image says whether captureImage returned a frame.
Tick(image) ==
    /\ auth.scanInterval # Null
    /\ image => CanCapture(auth)
    /\ IF TickSkips(auth) \/ ~image
       THEN UNCHANGED <<auth, tasks, console>>
       ELSE IF vault = NoVault
            THEN /\ auth' = ScanFailed(ScanStarted(auth))
                 /\ console' = "Device not enrolled. Please perform One-Time Setup."
                 /\ UNCHANGED tasks
            ELSE /\ auth' = ScanStarted(auth)
                 /\ tasks' = Started(tasks, [Task("verify", "gate") EXCEPT !.vault = vault])
                 /\ console' = ""
    /\ UNCHANGED <<vault, lastVaultOp, accounts, session, nextCred, loading,
                   currentUser, profileVars, dataVars, dashVars>>


----------------------------------------------------------------------------
(* Verify flow: faceLogin under handleAutoVerify *)

\* faceLogin line 175
GateRejects_never(analysis) == FALSE
GateRejects(analysis) == ~analysis.authorized

\* the UI part of a continuation runs on the instance that started it
OnInstance(t, a) == IF t.stale THEN auth ELSE a

\* analyzeFaceForAccess resolves in faceLogin (lines 174-184): on a verdict of
\* authorized the vault read at the start is unlocked and signIn is called
VerifyGate(t, reply) ==
    /\ t.kind = "verify" /\ t.pc = "gate"
    /\ IF GateRejects(analyzeFaceForAccess(reply))
       THEN /\ auth' = OnInstance(t, ScanFailed(auth))
            /\ console' = "Access Denied"
            /\ tasks' = Settled(tasks, t)
       ELSE IF ~CanUnlock(t.vault)
       THEN /\ auth' = OnInstance(t, ScanFailed(auth))
            /\ console' = "Biometric Token Corrupted. Please Re-Enroll."
            /\ tasks' = Settled(tasks, t)
       ELSE /\ tasks' = Started(Settled(tasks, t), [t EXCEPT !.pc = "signin"])
            /\ UNCHANGED <<auth, console>>
    /\ UNCHANGED <<vault, lastVaultOp, accounts, session, nextCred, loading,
                   currentUser, profileVars, dataVars, dashVars>>

\* handleAutoVerify after faceLogin returned (lines 133-136)
ScanSucceeded(a) ==
    [a EXCEPT !.scanInterval = Null, !.stream = FALSE,
              !.statusMessage = "Identity Verified"]

\* signIn resolves in faceLogin (lines 184-192), then handleAutoVerify continues
VerifySignIn(t, reply, seen) ==
    /\ t.kind = "verify" /\ t.pc = "signin"
    /\ LET r == signIn(Unlock(t.vault), reply, seen)
           sess == IF r.session # 0 THEN r.session ELSE session
       IN /\ session' = sess
          /\ IF r.error # Null \/ r.appUser = NoUser
             THEN /\ auth' = OnInstance(t, ScanFailed(auth))
                  /\ console' = "Biometric Token Corrupted. Please Re-Enroll."
                  /\ tasks' = Settled(tasks, t)
             ELSE /\ auth' = OnInstance(t, ScanSucceeded(auth))
                  /\ tasks' = OnLoginSuccess(Settled(tasks, t), sess)
                  /\ UNCHANGED console
    /\ UNCHANGED <<vault, lastVaultOp, accounts, nextCred, loading,
                   currentUser, profileVars, dataVars, dashVars>>

----------------------------------------------------------------------------
(* Enroll flow: enrollDevice under performEnrollmentCapture *)

FormShown(a) == a.mounted /\ a.mode = "ENROLL" /\ ~a.isEnrollmentStarted

\* the name input and the role select (lines 292-311)
SetName(n) ==
    /\ FormShown(auth) /\ auth.name # n
    /\ auth' = [auth EXCEPT !.name = n]
    /\ UNCHANGED <<vault, lastVaultOp, accounts, session, nextCred, loading,
                   currentUser, tasks, console, profileVars, dataVars, dashVars>>

SetRole(r) ==
    /\ FormShown(auth) /\ auth.role # r
    /\ auth' = [auth EXCEPT !.role = r]
    /\ UNCHANGED <<vault, lastVaultOp, accounts, session, nextCred, loading,
                   currentUser, tasks, console, profileVars, dataVars, dashVars>>

\* handleStartEnrollment (lines 147-165): the submit button is disabled while
\* isLoading, the input is required; the countdown closes over name and role
StartEnrollment ==
    /\ FormShown(auth) /\ ~auth.isLoading /\ auth.name # ""
    /\ auth' = Render(auth, [auth EXCEPT !.isEnrollmentStarted = TRUE])
    /\ tasks' = Started(tasks, [Task("countdown", "timer") EXCEPT
                                   !.name = auth.name, !.role = auth.role])
    /\ UNCHANGED <<vault, lastVaultOp, accounts, session, nextCred, loading,
                   currentUser, console, profileVars, dataVars, dashVars>>

\* performEnrollmentCapture's catch (lines 185-189)
EnrollFailed_staysStarted(a, message) ==
    Render(a, [a EXCEPT !.error = message, !.isLoading = FALSE])
EnrollFailed_silent(a, message) ==
    Render(a, [a EXCEPT !.isLoading = FALSE, !.isEnrollmentStarted = FALSE])
EnrollFailed(a, message) ==
    Render(a, [a EXCEPT !.error = message, !.isLoading = FALSE,
                        !.isEnrollmentStarted = FALSE])

\* the countdown ends: performEnrollmentCapture up to enrollDevice's first
\* await (lines 167-182, 131-133)
EnrollCapture(t, image) ==
    /\ t.kind = "countdown"
    /\ image => CanCapture(auth)
    /\ IF image
       THEN /\ auth' = [auth EXCEPT !.isLoading = TRUE,
                                    !.statusMessage = "Capturing Biometric Data..."]
            /\ tasks' = Started(Settled(tasks, t), [t EXCEPT !.kind = "enroll", !.pc = "gate"])
       ELSE /\ auth' = [auth EXCEPT !.isLoading = FALSE,
                                    !.statusMessage = "Capturing Biometric Data...",
                                    !.error = "Failed to capture. Please reload."]
            /\ tasks' = Settled(tasks, t)
    /\ UNCHANGED <<vault, lastVaultOp, accounts, session, nextCred, loading,
                   currentUser, console, profileVars, dataVars, dashVars>>

\* analyzeFaceForAccess resolves in enrollDevice (lines 133-145): on a verdict
\* of authorized the credentials are generated and signUp is called
EnrollGate(t, reply) ==
    /\ t.kind = "enroll" /\ t.pc = "gate"
    /\ LET analysis == analyzeFaceForAccess(reply) IN
       IF GateRejects(analysis)
       THEN /\ auth' = OnInstance(t, EnrollFailed(auth,
                                   "Face Enrollment Failed: " \o analysis.reason))
            /\ tasks' = Settled(tasks, t)
            /\ UNCHANGED nextCred
       ELSE /\ nextCred \in CredIds
            /\ tasks' = Started(Settled(tasks, t), [t EXCEPT !.pc = "signup", !.cred = nextCred])
            /\ nextCred' = nextCred + 1
            /\ UNCHANGED auth
    /\ UNCHANGED <<vault, lastVaultOp, accounts, session, loading,
                   currentUser, console, profileVars, dataVars, dashVars>>

\* signUp (lines 12-36): the outcome for each answer of supabase.auth.signUp
SignUpReplies == {"ok", "error500", "error", "nouser"}
signUp_swallows(reply) == Null
signUp(reply) ==
    CASE reply = "ok" -> Null
      [] reply = "error500" -> "DATABASE CONFIG ERROR"
      [] reply = "error" -> "Registration failed"
      [] OTHER -> "User creation failed"

\* what signUp attaches as options.data (lines 17-21)
SignUpMetadata_noRole(name, role) == [name |-> name, role |-> Absent]
SignUpMetadata_unregistered(name, role) == NoAccount
SignUpMetadata(name, role) == [name |-> name, role |-> role]

\* signUp resolves in enrollDevice (lines 145-156): the pair is stored in the
\* vault and signIn is called
EnrollSignUp(t, reply) ==
    /\ t.kind = "enroll" /\ t.pc = "signup"
    /\ IF signUp(reply) # Null
       THEN /\ auth' = OnInstance(t, EnrollFailed(auth, signUp(reply)))
            /\ tasks' = Settled(tasks, t)
            /\ UNCHANGED <<accounts, vault, lastVaultOp>>
       ELSE /\ accounts' = [accounts EXCEPT ![t.cred] =
                               SignUpMetadata(t.name, t.role)]
            /\ vault' = VaultData(Credentials(t.cred))
            /\ lastVaultOp' = "store"
            /\ tasks' = Started(Settled(tasks, t), [t EXCEPT !.pc = "signin"])
            /\ UNCHANGED auth
    /\ UNCHANGED <<session, nextCred, loading, currentUser,
                   console, profileVars, dataVars, dashVars>>

\* signIn resolves in enrollDevice (lines 156-159), then
\* performEnrollmentCapture continues (lines 183-184)
EnrollSignIn(t, reply, seen) ==
    /\ t.kind = "enroll" /\ t.pc = "signin"
    /\ LET r == signIn(Credentials(t.cred), reply, seen)
           sess == IF r.session # 0 THEN r.session ELSE session
       IN /\ session' = sess
          /\ IF r.error # Null \/ r.appUser = NoUser
             THEN /\ auth' = OnInstance(t, EnrollFailed(auth, "Enrollment Login Failed"))
                  /\ tasks' = Settled(tasks, t)
             ELSE /\ auth' = OnInstance(t, [auth EXCEPT !.stream = FALSE])
                  /\ tasks' = OnLoginSuccess(Settled(tasks, t), sess)
    /\ UNCHANGED <<vault, lastVaultOp, accounts, nextCred, loading,
                   currentUser, console, profileVars, dataVars, dashVars>>

\* the state updates of handleReset (lines 195-199)
handleReset_noModeChange(a) ==
    Render(a, [a EXCEPT !.scanInterval = Null, !.error = Null, !.name = "",
                        !.isEnrollmentStarted = FALSE])
handleReset(a) ==
    Render(a, [a EXCEPT !.scanInterval = Null, !.mode = "ENROLL",
                        !.error = Null, !.name = "",
                        !.isEnrollmentStarted = FALSE])

\* handleReset (lines 192-201), the user having confirmed; the button is
\* rendered in VERIFY mode only (line 326)
Reset ==
    /\ auth.mounted /\ auth.mode = "VERIFY"
    /\ vault' = resetEnrollment(vault)
    /\ lastVaultOp' = "clear"
    /\ auth' = handleReset(auth)
    /\ UNCHANGED <<accounts, session, nextCred, loading, currentUser, tasks,
                   console, profileVars, dataVars, dashVars>>

----------------------------------------------------------------------------
(* geminiService.verifyLocationAndFetchDetails *)

\* Text is a sequence of characters, so that trim, toUpperCase and includes
\* are computed as String.prototype computes them.
LowerToUpper ==
    [c \in {"a", "d", "i", "l", "n", "v"} |->
        CASE c = "a" -> "A" [] c = "d" -> "D" [] c = "i" -> "I"
          [] c = "l" -> "L" [] c = "n" -> "N" [] c = "v" -> "V"]
toUpperCase(s) ==
    [i \in DOMAIN s |-> IF s[i] \in DOMAIN LowerToUpper THEN LowerToUpper[s[i]] ELSE s[i]]
RECURSIVE trimStart(_)
trimStart(s) == IF s # <<>> /\ Head(s) = " " THEN trimStart(Tail(s)) ELSE s
RECURSIVE trimEnd(_)
trimEnd(s) ==
    IF s # <<>> /\ s[Len(s)] = " " THEN trimEnd(SubSeq(s, 1, Len(s) - 1)) ELSE s
trim(s) == trimEnd(trimStart(s))
includes(s, p) == \E i \in 1..(Len(s) - Len(p) + 1) : SubSeq(s, i, i + Len(p) - 1) = p

VALID == <<"V", "A", "L", "I", "D">>
INVALID == <<"I", "N", "V", "A", "L", "I", "D">>

\* what /VERDICT:\s*(.*)/i captures from the response text; NoVerdict: no match
NoVerdict == <<"no match">>
VerdictTexts ==
    {VALID, INVALID, <<"v", "a", "l", "i", "d", " ">>,
     <<"I", "n", "v", "a", "l", "i", "d">>, <<"U", "N", "K", "N", "O", "W", "N">>, <<>>}

\* one answer of ai.models.generateContent: an exception, a response without
\* text, or a text with its NAME / VERDICT captures; title is the title of a
\* grounding chunk, when there is one
NoReply == [kind |-> "none", name |-> Absent, verdict |-> NoVerdict, title |-> Absent]
LocationReplies ==
    {[NoReply EXCEPT !.kind = "throw"]}
    \cup [kind : {"empty"}, name : {Absent}, verdict : {NoVerdict},
          title : {Absent, "Kalawewa Tank"}]
    \cup [kind : {"text"}, name : {Absent, "Unknown", "Kala Wewa"},
          verdict : VerdictTexts \cup {NoVerdict}, title : {Absent, "Kalawewa Tank"}]

\* line 77
IsValidReservoir(verdictMatch) ==
    IF verdictMatch # NoVerdict THEN includes(toUpperCase(trim(verdictMatch)), VALID)
    ELSE FALSE

\* lines 19-105
verifyLocationAndFetchDetails(reply) ==
    IF reply.kind = "throw"
    THEN [name |-> "Manual Location (Error)", isValidReservoir |-> FALSE]
    ELSE LET nameMatch == reply.name
             locationName == IF nameMatch # Absent THEN nameMatch ELSE "Unknown Location"
         IN [name |-> IF /\ nameMatch = Absent \/ locationName \in {"Unknown", ""}
                         /\ reply.title # Absent
                      THEN reply.title ELSE locationName,
             isValidReservoir |-> IsValidReservoir(reply.verdict)]

----------------------------------------------------------------------------
(* Dashboard and DataEntryForm *)

\* DataEntryForm state (lines 13-26); lastReply is history: the answer
\* locationVerified was set from, none once handleGetLocation has reset it;
\* detailsFor is history: the coordinates locationName and locationVerified
\* were computed for are the ones held ("coords"), or ones cleared or
\* replaced since ("earlier")
FormInit ==
    [coords |-> FALSE, isLocating |-> FALSE, isVerifying |-> FALSE,
     locationVerified |-> FALSE, locationName |-> "", isSubmitting |-> FALSE,
     lastReply |-> NoReply, detailsFor |-> "none"]

\* Dashboard state (part_001 lines 197-202); confirmed is history: the answer
\* to the latest confirm() dialog; pending holds the promises and timers in flight
DashIdle ==
    [mounted |-> FALSE, role |-> Null, activeTab |-> "overview", entries |-> <<>>,
     dbSource |-> "LOCAL", isLoading |-> TRUE, isMissingTable |-> FALSE,
     confirmed |-> Null, pending |-> {}, form |-> FormInit]

\* superseded: the coordinates a verification was called with (the c of its
\* closure, lines 38-47) are no longer the ones the form holds
DashTask(kind) == [kind |-> kind, stale |-> FALSE, superseded |-> FALSE]
FormTasks == {"locate", "verify", "submit"}
LoadTasks == {"load", "afterAdd", "afterDelete"}
Awaiting(d, kind) == \E t \in d.pending : t.kind = kind

\* the form is rendered in the entry tab only (line 363): leaving the tab
\* unmounts it, its promises and its timer keep running
setActiveTab(d, tab) ==
    IF tab = d.activeTab THEN d
    ELSE IF d.activeTab = "entry"
    THEN [d EXCEPT !.activeTab = tab, !.form = FormInit,
                   !.pending = {IF t.kind \in FormTasks THEN [t EXCEPT !.stale = TRUE]
                                ELSE t : t \in d.pending}]
    ELSE [d EXCEPT !.activeTab = tab, !.form = FormInit]

\* the role gates of the rendering (lines 302, 405 and 481)
CanAddEntries_anyRole(role) == TRUE
CanAddEntries(role) == role \in {DATA_ENTRY_WORKER, SUPER_ADMIN}
CanDeleteEntries(role) == role \in {SUPER_ADMIN, ADMIN}

\* the first commit and its effects (lines 214-226): loadData is started and
\* a data-entry worker lands on the entry tab
DashMount(role) ==
    LET d == [DashIdle EXCEPT !.mounted = TRUE, !.role = role,
                              !.pending = {DashTask("load")}]
    IN IF role = DATA_ENTRY_WORKER THEN setActiveTab(d, "entry") ELSE d

\* a click on a tab button, or on "Add First Entry"
SelectTab(tab) ==
    /\ dash.mounted
    /\ tab = "entry" => CanAddEntries(dash.role)
    /\ dash' = setActiveTab(dash, tab)
    /\ UNCHANGED <<authVars, profileVars, dataVars>>

\* the 30 s interval calls loadData (lines 205-206, 217)
IntervalLoad ==
    /\ dash.mounted
    /\ ~Awaiting(dash, "load")
    /\ dash' = [dash EXCEPT !.isLoading = TRUE, !.pending = @ \cup {DashTask("load")}]
    /\ UNCHANGED <<authVars, profileVars, dataVars>>

\* loadData's getEntries answers (lines 207-211); after handleNewEntry's
\* reload the overview tab is selected (line 231)
LoadResolved(t, remote) ==
    /\ t \in dash.pending /\ t.kind \in LoadTasks
    /\ getEntries(remote)
    /\ LET d == [dash EXCEPT !.entries = lastCall'.data, !.dbSource = lastCall'.source,
                             !.isMissingTable = lastCall'.isMissingTable,
                             !.isLoading = FALSE, !.pending = @ \ {t}]
       IN dash' = IF t.kind = "afterAdd" THEN setActiveTab(d, "overview") ELSE d
    /\ UNCHANGED <<authVars, profileVars>>

\* handleDeleteEntry (lines 234-239) from the Delete button of a listed record
\* (line 481), up to the loadData it starts
HandleDeleteEntry(id, ok, remote, setItemThrows) ==
    /\ dash.mounted /\ dash.activeTab = "overview"
    /\ CanDeleteEntries(dash.role)
    /\ \E i \in DOMAIN dash.entries : dash.entries[i].id = id
    /\ ~Awaiting(dash, "afterDelete")
    /\ IF ok
       THEN /\ deleteEntry(id, remote, setItemThrows)
            /\ dash' = IF lastCall'.returned
                       THEN [dash EXCEPT !.confirmed = "yes", !.isLoading = TRUE,
                                         !.pending = @ \cup {DashTask("afterDelete")}]
                       ELSE [dash EXCEPT !.confirmed = "yes"]
       ELSE /\ dash' = [dash EXCEPT !.confirmed = "no"]
            /\ UNCHANGED dataVars
    /\ UNCHANGED <<authVars, profileVars>>

\* handleGetLocation (DataEntryForm lines 28-35): the button is rendered
\* while there are no coordinates (line 113)
GetLocation ==
    /\ dash.mounted /\ dash.activeTab = "entry"
    /\ ~dash.form.coords /\ ~dash.form.isLocating
    /\ dash' = [dash EXCEPT !.form.isLocating = TRUE, !.form.locationVerified = FALSE,
                            !.form.lastReply = NoReply,
                            !.pending = @ \cup {DashTask("locate")}]
    /\ UNCHANGED <<authVars, profileVars, dataVars>>

\* setCoords(null) (lines 100 and 189): the verifications still in flight
\* were called with the coordinates that are dropped, and the details shown
\* were computed for them
setCoordsNull(d) ==
    [d EXCEPT !.form.coords = FALSE,
              !.form.detailsFor = IF @ = "coords" THEN "earlier" ELSE @,
              !.pending = {IF t.kind = "verify" /\ ~t.stale
                           THEN [t EXCEPT !.superseded = TRUE] ELSE t : t \in @}]

\* getCurrentPosition answers (lines 36-61)
LocateResolved(t, ok) ==
    /\ t \in dash.pending /\ t.kind = "locate"
    /\ LET rest == dash.pending \ {t}
           next == IF ok THEN rest \cup {[t EXCEPT !.kind = "verify"]} ELSE rest
       IN dash' = IF t.stale THEN [dash EXCEPT !.pending = next]
                  ELSE IF ok
                  THEN [dash EXCEPT !.pending = next, !.form.coords = TRUE,
                                    !.form.isLocating = FALSE, !.form.isVerifying = TRUE]
                  ELSE [dash EXCEPT !.pending = next, !.form.isLocating = FALSE]
    /\ UNCHANGED <<authVars, profileVars, dataVars>>

\* verifyLocationAndFetchDetails answers (lines 47-52)
VerifyResolved(t, reply) ==
    /\ t \in dash.pending /\ t.kind = "verify"
    /\ LET details == verifyLocationAndFetchDetails(reply)
       IN dash' = IF t.stale THEN [dash EXCEPT !.pending = @ \ {t}]
                  ELSE [dash EXCEPT !.pending = @ \ {t},
                                    !.form.locationName = details.name,
                                    !.form.locationVerified = details.isValidReservoir,
                                    !.form.isVerifying = FALSE,
                                    !.form.lastReply = reply,
                                    !.form.detailsFor =
                                        IF t.superseded THEN "earlier" ELSE "coords"]
    /\ UNCHANGED <<authVars, profileVars, dataVars>>

\* the reset button next to the located position (line 190)
ClearCoords ==
    /\ dash.mounted /\ dash.activeTab = "entry"
    /\ dash.form.coords
    /\ dash' = setCoordsNull(dash)
    /\ UNCHANGED <<authVars, profileVars, dataVars>>

\* the entry form is rendered (line 202)
EntryFormShown(d) ==
    /\ d.mounted /\ d.activeTab = "entry"
    /\ d.form.coords /\ ~d.form.isVerifying /\ d.form.locationVerified

\* handleSubmit (lines 64-103) up to the timer it arms; the risk analysis
\* it awaits never throws
HandleSubmit ==
    /\ EntryFormShown(dash)
    /\ ~dash.form.isSubmitting
    /\ dash' = IF dash.form.locationName = "" THEN dash
               ELSE [dash EXCEPT !.form.isSubmitting = TRUE,
                                 !.pending = @ \cup {DashTask("submit")}]
    /\ UNCHANGED <<authVars, profileVars, dataVars>>

\* the record the form submits: id and timestamp are Date.now()
DashEntries == {e \in ReservoirEntry : e.id = 1 /\ e.timestamp = 1}

\* the answers the geofence call gets under the Dashboard
DashReplies ==
    {r \in LocationReplies :
        \/ r.kind = "throw"
        \/ r.kind = "text" /\ r.name = "Kala Wewa" /\ r.title = Absent
                          /\ r.verdict = VALID}

\* the timer fires (lines 91-102): onSubmit(newEntry) is handleNewEntry
\* (part_001 lines 228-232), here up to the loadData it starts
HandleNewEntry(t, entry, remote, setItemThrows) ==
    /\ t \in dash.pending /\ t.kind = "submit"
    /\ ~Awaiting(dash, "afterAdd")
    /\ addEntry(entry, remote, setItemThrows)
    /\ LET d == [dash EXCEPT !.isLoading = TRUE,
                             !.pending = (@ \ {t}) \cup {DashTask("afterAdd")}]
       IN dash' = IF t.stale THEN d
                  ELSE setCoordsNull([d EXCEPT !.form.isSubmitting = FALSE,
                                                !.form.locationName = ""])
    /\ UNCHANGED <<authVars, profileVars>>

IdleDash == dash = DashIdle

----------------------------------------------------------------------------
(* Specifications *)

\* A launch: the page loads on a device that is fresh, or that an earlier
\* launch enrolled (and possibly left signed in), or whose stored blob has
\* since been damaged. The account of the earlier
\* launch has a profiles row but its auth user carries no metadata, so that
\* its profile resolves exactly when a poll sees the row.
InitAuth ==
    /\ loading = TRUE
    /\ currentUser = NoUser
    /\ auth = AuthInit
    /\ tasks = EmptyBag
    /\ console = ""
    /\ \/ /\ vault = NoVault
          /\ lastVaultOp = "none"
          /\ accounts = [c \in CredIds |-> NoAccount]
          /\ session = 0
          /\ nextCred = 2
       \/ /\ vault = VaultData(Credentials(1))
          /\ lastVaultOp = "store"
          /\ accounts = [c \in CredIds |-> IF c = 1 THEN NoMeta ELSE NoAccount]
          /\ session \in {0, 1}
          /\ nextCred = 2
       \/ /\ vault = CorruptVault
          /\ lastVaultOp = "store"
          /\ accounts = [c \in CredIds |-> IF c = 1 THEN NoMeta ELSE NoAccount]
          /\ session = 0
          /\ nextCred = 2

IdleAuth ==
    /\ loading = TRUE
    /\ currentUser = NoUser
    /\ auth = AuthInit
    /\ tasks = EmptyBag
    /\ console = ""
    /\ vault = NoVault
    /\ lastVaultOp = "none"
    /\ accounts = [c \in CredIds |-> NoAccount]
    /\ session = 0
    /\ nextCred = 2

IdleProfile == gpIn = gpIdle /\ gpOut = gpPending

Init == InitAuth /\ IdleProfile /\ InitData /\ IdleDash

Next ==
    \/ CheckUser
    \/ \E t \in BagToSet(tasks) : LoginResolved(t)
    \/ Logout
    \/ \E m \in {"VERIFY", "ENROLL"} : CameraStarted(m)
    \/ \E m \in {"VERIFY", "ENROLL"} : CameraDenied(m)
    \/ LoadedMetadata
    \/ \E image \in BOOLEAN : Tick(image)
    \/ \E t \in BagToSet(tasks), reply \in GateReplies : VerifyGate(t, reply)
    \/ \E t \in BagToSet(tasks), reply \in {"ok", "error"} :
          \E seen \in PollPatterns : VerifySignIn(t, reply, seen)
    \/ \E n \in Names \cup {""} : SetName(n)
    \/ \E r \in FormRoles : SetRole(r)
    \/ StartEnrollment
    \/ \E t \in BagToSet(tasks), image \in BOOLEAN : EnrollCapture(t, image)
    \/ \E t \in BagToSet(tasks), reply \in GateReplies : EnrollGate(t, reply)
    \/ \E t \in BagToSet(tasks), reply \in SignUpReplies : EnrollSignUp(t, reply)
    \/ \E t \in BagToSet(tasks), reply \in {"ok", "error"} :
          \E seen \in PollPatterns : EnrollSignIn(t, reply, seen)
    \/ Reset

Spec == Init /\ [][Next]_vars

\* Spec on a device that was never enrolled: no earlier pair exists, so the
\* pairs the run generates are 1, 2, ...
InitFresh ==
    /\ loading = TRUE
    /\ currentUser = NoUser
    /\ auth = AuthInit
    /\ tasks = EmptyBag
    /\ console = ""
    /\ vault = NoVault
    /\ lastVaultOp = "none"
    /\ accounts = [c \in CredIds |-> NoAccount]
    /\ session = 0
    /\ nextCred = 1
    /\ IdleProfile /\ InitData /\ IdleDash
SpecFresh == InitFresh /\ [][Next]_vars

\* The Verify flow of a device that this app enrolled (the account carries
\* the sign-up metadata, so a signed-in user always resolves), the user
\* logging out or resetting the device. The interval keeps firing and every promise
\* settles (weak fairness); the answers that let an attempt through do not
\* stay away for ever while attempts keep asking for them (strong fairness).
EnrolledAccounts == [name : {"J. Perera", "S. Silva"}, role : UserRole]
InitVerify ==
    /\ loading = TRUE
    /\ currentUser = NoUser
    /\ auth = AuthInit
    /\ tasks = EmptyBag
    /\ console = ""
    /\ vault = VaultData(Credentials(1))
    /\ lastVaultOp = "store"
    /\ \E meta \in EnrolledAccounts :
         accounts = [c \in CredIds |-> IF c = 1 THEN meta ELSE NoAccount]
    /\ session \in {0, 1}
    /\ nextCred = 2
    /\ IdleProfile /\ InitData /\ IdleDash
NextVerify ==
    \/ CheckUser
    \/ \E t \in BagToSet(tasks) : LoginResolved(t)
    \/ Logout
    \/ \E m \in {"VERIFY", "ENROLL"} : CameraStarted(m)
    \/ \E m \in {"VERIFY", "ENROLL"} : CameraDenied(m)
    \/ LoadedMetadata
    \/ \E image \in BOOLEAN : Tick(image)
    \/ \E t \in BagToSet(tasks), reply \in GateReplies : VerifyGate(t, reply)
    \/ \E t \in BagToSet(tasks), reply \in {"ok", "error"} :
          \E seen \in PollPatterns : VerifySignIn(t, reply, seen)
    \/ Reset
AttemptStarts == Tick(TRUE) /\ tasks' # tasks
GateAuthorizes == \E t \in BagToSet(tasks) : VerifyGate(t, "authorized")
SignInSucceeds ==
    \E t \in BagToSet(tasks), seen \in PollPatterns : VerifySignIn(t, "ok", seen)
SpecVerify ==
    /\ InitVerify /\ [][NextVerify]_vars
    /\ WF_vars(AttemptStarts)
    /\ SF_vars(GateAuthorizes)
    /\ SF_vars(SignInSucceeds)
    /\ WF_vars(\E t \in BagToSet(tasks) : LoginResolved(t))

\* Spec with the auth service's calls allowed to reject their promises
NextRejecting ==
    \/ Next
    \/ CheckUserRejected
    \/ \E t \in BagToSet(tasks) : LoginRejected(t)
    \/ LogoutRejected
SpecRejecting == Init /\ [][NextRejecting]_vars

InitProfile ==
    gpIn \in ProfileInputs /\ gpOut = gpPending /\ IdleAuth /\ InitData /\ IdleDash
NextProfile == ResolveProfile
SpecProfile == InitProfile /\ [][NextProfile]_vars

InitDataSpec == InitData /\ IdleAuth /\ IdleProfile /\ IdleDash
NextData == AddEntry \/ DeleteEntry \/ GetEntries
SpecData == InitDataSpec /\ [][NextData]_vars

\* The Dashboard of a signed-in user of any role, over a table and a cache
\* that earlier sessions may have filled
InitDash ==
    /\ dash \in {DashMount(role) : role \in UserRole \cup {"GUEST"}}
    /\ \E e \in DashEntries :
         /\ remoteTable \in {{}, {DbPayload(e)}}
         /\ cache \in {NoItem, JsonStringify(<<e>>)}
    /\ lastCall = NoCall
    /\ IdleAuth /\ IdleProfile
\* the remote database answers a Dashboard call or fails it
DashOutcomes == {"ok", "throw"}
\* SpecDash follows the runs in which a position arrives when no geofence
\* call is in flight; SpecForm has the overlapping ones
NextDash ==
    \/ \E tab \in {"overview", "map", "entry"} : SelectTab(tab)
    \/ IntervalLoad
    \/ \E t \in dash.pending, remote \in DashOutcomes : LoadResolved(t, remote)
    \/ \E id \in EntryIds, ok \in BOOLEAN, remote \in DashOutcomes,
          setItemThrows \in BOOLEAN : HandleDeleteEntry(id, ok, remote, setItemThrows)
    \/ GetLocation
    \/ \E t \in dash.pending, ok \in BOOLEAN :
          ~Awaiting(dash, "verify") /\ LocateResolved(t, ok)
    \/ \E t \in dash.pending, reply \in DashReplies : VerifyResolved(t, reply)
    \/ ClearCoords
    \/ HandleSubmit
    \/ \E t \in dash.pending, entry \in DashEntries, remote \in DashOutcomes :
          HandleNewEntry(t, entry, remote, FALSE)
SpecDash == InitDash /\ [][NextDash]_vars

\* The geofence step of the DataEntryForm of a data-entry worker, over every
\* answer of the geofence call, up to the submission of the entry form
InitForm ==
    /\ dash = DashMount(DATA_ENTRY_WORKER)
    /\ InitData /\ IdleAuth /\ IdleProfile
NextForm ==
    \/ GetLocation
    \/ \E t \in dash.pending, ok \in BOOLEAN : LocateResolved(t, ok)
    \/ \E t \in dash.pending, reply \in LocationReplies : VerifyResolved(t, reply)
    \/ ClearCoords
    \/ HandleSubmit
SpecForm == InitForm /\ [][NextForm]_vars


----------------------------------------------------------------------------
(* Claims on Spec *)

\* C1: isDeviceEnrolled() is true exactly when the last operation on the
\* vault key was a store (enrollDevice step 4), not a clear (resetEnrollment);
\* before any store it is false.
C1_EnrolledIffStored ==
    isDeviceEnrolled(vault) <=> (lastVaultOp = "store")

\* a device enrolled by an earlier launch, reset, and enrolled again
C1_Witness ==
    /\ accounts[1] # NoAccount
    /\ lastVaultOp = "store"
    /\ vault = VaultData(Credentials(2))
    /\ isDeviceEnrolled(vault)

\* C2: at most one faceLogin call is in flight at any time on the device.
C2_OneVerifyInFlight ==
    InFlight(tasks, "verify") <= 1

\* C3: a Verify attempt whose Biometric Gate verdict is authorized=false ends
\* there: it makes no sign-in call, the session is what it was, nobody is
\* signed in by it, and the screen stays in the mode it was in (VERIFY).
C3_RejectedStaysVerifying ==
    [][\A t \in BagToSet(tasks), reply \in GateReplies :
          (VerifyGate(t, reply) /\ ~analyzeFaceForAccess(reply).authorized) =>
             /\ tasks' = Settled(tasks, t)
             /\ session' = session
             /\ currentUser' = currentUser
             /\ auth'.mounted = auth.mounted
             /\ auth'.mode = auth.mode]_vars

\* the Verify screen right after the gate refused a face
C3_Witness ==
    /\ console = "Access Denied"
    /\ auth.mounted /\ auth.mode = "VERIFY"
    /\ auth.statusMessage = "Adjust face position..."
    /\ tasks = EmptyBag
    /\ session = 0
    /\ currentUser = NoUser

\* C8: a Verify attempt whose sign-in is accepted but whose profile cannot be
\* resolved (no row at any poll, no metadata) signs nobody in and is a hard
\* failure: an error is shown or the scanning loop is stopped, so that the
\* next tick does not retry on its own.
C8_HardFailure ==
    [][\A t \in BagToSet(tasks), seen \in PollPatterns :
          (/\ VerifySignIn(t, "ok", seen)
           /\ ~t.stale
           /\ Registered(Unlock(t.vault))
           /\ signIn(Unlock(t.vault), "ok", seen).appUser = NoUser) =>
             /\ currentUser' = NoUser
             /\ auth'.error # Null \/ auth'.scanInterval = Null]_vars

\* C9 as stated: a user is signed in only from the ENROLL or the VERIFY screen.
C9_OnlyThroughAuth ==
    [][(currentUser = NoUser /\ currentUser' # NoUser) =>
          (auth.mounted /\ auth.mode \in {"ENROLL", "VERIFY"})]_vars

\* C9: the launch first checks for a session; a user is signed in either by
\* that check or from the ENROLL or VERIFY screen, and whenever the
\* authentication screen comes up it is in VERIFY mode if the vault is
\* present and in ENROLL mode if it is absent.
C9_LaunchTransition ==
    [][/\ (currentUser = NoUser /\ currentUser' # NoUser) =>
             (loading \/ (auth.mounted /\ auth.mode \in {"ENROLL", "VERIFY"}))
       /\ (~auth.mounted /\ auth'.mounted) =>
             auth'.mode = (IF vault' # NoVault THEN "VERIFY" ELSE "ENROLL")]_vars

\* the launch of an enrolled device with no session has just shown the screen
C9_Witness ==
    /\ ~loading
    /\ currentUser = NoUser
    /\ vault # NoVault
    /\ auth.mounted /\ auth.mode = "VERIFY"
    /\ auth.camPending = {"VERIFY"} /\ ~auth.stream
    /\ tasks = EmptyBag /\ console = ""

\* C10: an enrollment of the running screen that the gate authorizes and whose
\* sign-up and sign-in are accepted creates exactly one account, with the
\* submitted {name, role} as metadata, stores the generated pair in the vault,
\* returns a user with that name and role, and ends signed in.
C10_EnrollSucceeds ==
    [][/\ \A t \in BagToSet(tasks) :
             (EnrollSignUp(t, "ok") /\ ~t.stale) =>
                /\ accounts[t.cred] = NoAccount
                /\ accounts' = [accounts EXCEPT ![t.cred] =
                                    [name |-> t.name, role |-> t.role]]
                /\ vault' = <<"b64", Credentials(t.cred).email,
                              Credentials(t.cred).password>>
       /\ \A t \in BagToSet(tasks), seen \in PollPatterns :
             (EnrollSignIn(t, "ok", seen) /\ ~t.stale) =>
                LET r == signIn(Credentials(t.cred), "ok", seen) IN
                /\ r.error = Null
                /\ r.appUser # NoUser
                /\ r.appUser.name = t.name /\ r.appUser.role = t.role
                /\ vault = <<"b64", Credentials(t.cred).email,
                             Credentials(t.cred).password>>
                /\ session' = t.cred
                /\ \E u \in BagToSet(tasks') : u.kind = "resolve" /\ u.user = t.cred
       /\ \A u \in BagToSet(tasks) :
             (LoginResolved(u) /\ u.user \in 2..(MaxCreds + 1)) =>
                /\ currentUser' # NoUser
                /\ currentUser'.name = accounts[u.user].name
                /\ currentUser'.role = accounts[u.user].role
                /\ ~auth'.mounted]_vars

\* a fresh device enrolled as ADMIN "J. Perera" and now signed in
C10_Witness ==
    /\ accounts[1] = NoAccount
    /\ accounts[2] = [name |-> "J. Perera", role |-> ADMIN]
    /\ vault = VaultData(Credentials(2))
    /\ session = 2
    /\ currentUser # NoUser
    /\ currentUser.id = 2 /\ currentUser.name = "J. Perera" /\ currentUser.role = ADMIN
    /\ ~auth.mounted

\* C11: a Verify attempt of the running screen that the Biometric Gate refuses
\* ends with the retry hint only: the attempt is over, no error is set (none
\* is shown in VERIFY mode), the mode is unchanged, the scan guard is
\* released, and an armed interval will start a new attempt at its next tick.
C11_SoftRetry ==
    [][\A t \in BagToSet(tasks), reply \in GateReplies :
          (/\ VerifyGate(t, reply)
           /\ ~t.stale
           /\ ~analyzeFaceForAccess(reply).authorized) =>
             /\ tasks' = Settled(tasks, t)
             /\ auth'.statusMessage = "Adjust face position..."
             /\ auth'.error = auth.error
             /\ auth.mode = "VERIFY" => auth'.error = Null
             /\ auth'.mode = auth.mode
             /\ ~auth'.isScanning /\ ~auth'.isLoading
             /\ auth'.scanInterval = auth.scanInterval
             /\ auth'.scanInterval = "VERIFY" =>
                   ~(auth'.isScanning \/ auth'.scanInterval # "VERIFY")]_vars

\* the Verify screen after a refused face, ready for the next tick
C11_Witness ==
    /\ console = "Access Denied"
    /\ auth.mounted /\ auth.mode = "VERIFY"
    /\ auth.statusMessage = "Adjust face position..."
    /\ auth.error = Null
    /\ ~auth.isScanning /\ ~auth.isLoading
    /\ auth.scanInterval = "VERIFY"
    /\ auth.stream /\ auth.videoSrc
    /\ vault # NoVault

\* C12: a Verify attempt of the running screen whose sign-in with the stored
\* pair is refused (network or credential error) ends exactly as a refused
\* face does: retry hint, guard released, mode and error unchanged, interval
\* still armed, nobody signed in and no session established.
C12_SignInFailureSoft ==
    [][\A t \in BagToSet(tasks), seen \in PollPatterns :
          (VerifySignIn(t, "error", seen) /\ ~t.stale) =>
             /\ tasks' = Settled(tasks, t)
             /\ auth' = [auth EXCEPT !.statusMessage = "Adjust face position...",
                                     !.isLoading = FALSE, !.isScanning = FALSE]
             /\ session' = session
             /\ currentUser' = currentUser]_vars

\* the Verify screen after the gate authorized and the sign-in was refused
C12_Witness ==
    /\ console = "Biometric Token Corrupted. Please Re-Enroll."
    /\ CanUnlock(vault)
    /\ session = 0
    /\ auth.mounted /\ auth.mode = "VERIFY"
    /\ auth.statusMessage = "Adjust face position..."
    /\ ~auth.isScanning
    /\ auth.scanInterval = "VERIFY"
    /\ tasks = EmptyBag

\* C13: a Verify attempt of the running screen that the gate authorizes but
\* whose vault blob cannot be decoded is terminal: a message is shown and the
\* scanning loop is stopped, so that nothing retries until the user resets.
C13_VaultCorruptTerminal ==
    [][\A t \in BagToSet(tasks) :
          (/\ VerifyGate(t, "authorized")
           /\ ~t.stale
           /\ t.vault = CorruptVault) =>
             /\ auth'.error # Null
             /\ auth'.scanInterval = Null]_vars

\* C14: an enrollment of the running screen that the Biometric Gate refuses
\* fails with the gate's reason as the error shown; no credential pair is
\* generated or registered, the vault is unchanged, and the screen is back on
\* the enrollment form in ENROLL mode with the submit button enabled.
C14_EnrollGateRefused ==
    [][\A t \in BagToSet(tasks), reply \in {"rejected", "empty", "throw"} :
          (EnrollGate(t, reply) /\ ~t.stale) =>
             /\ auth'.error =
                   (CASE reply = "rejected" -> "Face Enrollment Failed: no live face"
                      [] reply = "empty" -> "Face Enrollment Failed: No response from AI"
                      [] OTHER -> "Face Enrollment Failed: Biometric Service Unavailable. Check connection.")
             /\ tasks' = Settled(tasks, t)
             /\ accounts' = accounts
             /\ nextCred' = nextCred
             /\ vault' = vault
             /\ session' = session
             /\ auth'.mounted /\ auth'.mode = "ENROLL"
             /\ ~auth'.isEnrollmentStarted /\ ~auth'.isLoading
             /\ auth'.name = t.name /\ auth'.role = t.role]_vars

\* a fresh device back on the form after the gate answered nothing
C14_Witness ==
    /\ auth.error = "Face Enrollment Failed: No response from AI"
    /\ auth.mounted /\ auth.mode = "ENROLL"
    /\ ~auth.isEnrollmentStarted /\ ~auth.isLoading
    /\ auth.name = "J. Perera"
    /\ vault = NoVault /\ lastVaultOp = "none"
    /\ accounts[2] = NoAccount
    /\ nextCred = 2
    /\ tasks = EmptyBag

\* C15: an enrollment of the running screen whose sign-up is refused fails
\* with the sign-up's message as the error shown; the vault is not written,
\* no account is registered, no sign-in follows, and the screen is back on the
\* enrollment form.
C15_SignUpRefused ==
    [][\A t \in BagToSet(tasks), reply \in {"error500", "error", "nouser"} :
          (EnrollSignUp(t, reply) /\ ~t.stale) =>
             /\ auth'.error =
                   (CASE reply = "error500" -> "DATABASE CONFIG ERROR"
                      [] reply = "error" -> "Registration failed"
                      [] OTHER -> "User creation failed")
             /\ tasks' = Settled(tasks, t)
             /\ vault' = vault
             /\ lastVaultOp' = lastVaultOp
             /\ accounts' = accounts
             /\ session' = session
             /\ auth'.mounted /\ auth'.mode = "ENROLL"
             /\ ~auth'.isEnrollmentStarted /\ ~auth'.isLoading]_vars

\* a fresh device back on the form after the sign-up trigger crashed
C15_Witness ==
    /\ auth.error = "DATABASE CONFIG ERROR"
    /\ auth.mounted /\ auth.mode = "ENROLL"
    /\ ~auth.isEnrollmentStarted /\ ~auth.isLoading
    /\ vault = NoVault /\ lastVaultOp = "none"
    /\ accounts[2] = NoAccount
    /\ nextCred = 3
    /\ session = 0
    /\ tasks = EmptyBag

\* C16: an enrollment of the running screen whose sign-in after the vault
\* write is refused fails with "Enrollment Login Failed" and rolls nothing
\* back: the vault still holds the new pair and the account stays registered.
C16_NoRollback ==
    [][\A t \in BagToSet(tasks), seen \in PollPatterns :
          (EnrollSignIn(t, "error", seen) /\ ~t.stale) =>
             /\ auth'.error = "Enrollment Login Failed"
             /\ tasks' = Settled(tasks, t)
             /\ vault' = <<"b64", Credentials(t.cred).email,
                           Credentials(t.cred).password>>
             /\ accounts' = accounts
             /\ accounts'[t.cred] = [name |-> t.name, role |-> t.role]
             /\ session' = session
             /\ currentUser' = NoUser
             /\ auth'.mounted /\ auth'.mode = "ENROLL"
             /\ ~auth'.isEnrollmentStarted]_vars

\* the form is back with the error while the device is already enrolled
C16_Witness ==
    /\ auth.error = "Enrollment Login Failed"
    /\ auth.mounted /\ auth.mode = "ENROLL"
    /\ ~auth.isEnrollmentStarted
    /\ vault = VaultData(Credentials(2))
    /\ accounts[2] # NoAccount
    /\ session = 0
    /\ currentUser = NoUser

\* C17: a confirmed Reset, whenever the button is there (also with a Verify
\* attempt in flight), clears the vault and leaves the screen in ENROLL mode
\* with no error, the name empty, the role at its default and enrollment not
\* started; it starts no call (the promises in flight are the same) and
\* changes neither the accounts nor the session.
C17_ResetToEnrolling ==
    [][Reset =>
          /\ vault' = <<>>
          /\ auth'.mounted /\ auth'.mode = "ENROLL"
          /\ auth'.name = "" /\ auth'.role = "DATA_ENTRY_WORKER"
          /\ ~auth'.isEnrollmentStarted
          /\ auth'.error = Null
          /\ auth'.scanInterval = Null
          /\ tasks' = tasks
          /\ accounts' = accounts
          /\ session' = session
          /\ currentUser' = currentUser]_vars

\* the form right after a Reset pressed while a scan was waiting for the gate
C17_Witness ==
    /\ lastVaultOp = "clear" /\ vault = NoVault
    /\ auth.mounted /\ auth.mode = "ENROLL"
    /\ auth.name = "" /\ ~auth.isEnrollmentStarted
    /\ auth.isScanning
    /\ \E t \in BagToSet(tasks) : t.kind = "verify" /\ t.pc = "gate" /\ ~t.stale

\* C18: at most one enrollDevice or faceLogin call is in flight at any time.
C18_OneAttemptInFlight ==
    InFlight(tasks, "verify") + InFlight(tasks, "enroll") <= 1

----------------------------------------------------------------------------
(* Claims on SpecData: getEntries *)

\* C19: a getEntries whose remote read succeeds returns the rows of the
\* remote table, each mapped to a record, newest first, tagged MYSQL (the
\* remote source) with the missing-table flag false; it does not read the
\* local cache and leaves it and the table as they were.
C19_RemoteFirst ==
    [][(getEntries("ok")) =>
          /\ lastCall'.returned
          /\ lastCall'.source = "MYSQL"
          /\ lastCall'.isMissingTable = FALSE
          /\ Len(lastCall'.data) = Cardinality(remoteTable)
          /\ Range(lastCall'.data) =
                {[id |-> r.id, timestamp |-> r.timestamp,
                  locationName |-> r.location_name] : r \in remoteTable}
          /\ \A i, j \in DOMAIN lastCall'.data :
                i < j => lastCall'.data[i].timestamp >= lastCall'.data[j].timestamp
          /\ lastCall'.local = "untouched"
          /\ cache' = cache
          /\ remoteTable' = remoteTable]_vars

\* a read that returned a remote row the local cache does not hold
C19_Witness ==
    /\ lastCall.op = "getEntries" /\ lastCall.remote = "ok"
    /\ lastCall.source = "MYSQL"
    /\ Len(lastCall.data) = 2
    /\ lastCall.data[1].timestamp > lastCall.data[2].timestamp
    /\ lastCall.data[1] \notin Range(SavedEntries(cache))

\* C20: a getEntries whose remote read fails returns the content of the
\* local cache tagged LOCAL, with the missing-table flag true exactly when
\* the failure carries the code PGRST205, and leaves the cache as it was.
C20_LocalFallback ==
    [][\A remote \in {"error", "PGRST205", "throw"} :
          getEntries(remote) =>
             /\ lastCall'.returned
             /\ lastCall'.source = "LOCAL"
             /\ lastCall'.data = (IF cache = <<>> THEN <<>> ELSE cache[2])
             /\ lastCall'.isMissingTable = (remote = "PGRST205")
             /\ cache' = cache
             /\ remoteTable' = remoteTable]_vars

\* a read against a database without the table, served from a non-empty cache
C20_Witness ==
    /\ lastCall.op = "getEntries" /\ lastCall.remote = "PGRST205"
    /\ lastCall.source = "LOCAL"
    /\ lastCall.isMissingTable
    /\ Len(lastCall.data) >= 1
    /\ lastCall.data = SavedEntries(cache)

\* a read that failed for another reason, served from the cache without the flag
C20_WitnessOther ==
    /\ lastCall.op = "getEntries" /\ lastCall.remote = "error"
    /\ lastCall.source = "LOCAL"
    /\ ~lastCall.isMissingTable

----------------------------------------------------------------------------
(* Claims on SpecData: deleteEntry *)

\* C21: deleteEntry(id) never raises because of the remote delete (an error
\* object and an exception are both only logged), and once it has returned
\* the local cache holds no record of that id, for every remote outcome.
C21_DeleteBestEffort ==
    lastCall.op = "deleteEntry"
    => /\ lastCall.local # "throw" => lastCall.returned
       /\ lastCall.returned
            => \A e \in Range(SavedEntries(cache)) : e.id # lastCall.entry.id

\* the remote delete threw and left its row in place; the cache was rewritten
\* and still holds a record of another id
C21_Witness ==
    /\ lastCall.op = "deleteEntry"
    /\ lastCall.remote = "throw"
    /\ lastCall.local = "ok"
    /\ lastCall.returned
    /\ \E row \in remoteTable : row.id = lastCall.entry.id
    /\ SavedEntries(cache) # <<>>
    /\ \A e \in Range(SavedEntries(cache)) : e.id # lastCall.entry.id

----------------------------------------------------------------------------
(* Claims on SpecRejecting *)

\* C22: every failure of a remote call made during launch, enrollment,
\* verification, post-login user resolution or logout is caught by the service
\* or the orchestrator: the browser never sees a rejection that nobody handled.
C22_NoEscape == console # Uncaught

----------------------------------------------------------------------------
(* Claims on Spec: credential lifecycle *)

\* C23: the credential pair is never rotated: once the vault holds a pair, no
\* step replaces it by another value; only Reset changes the vault, by
\* emptying it.
C23_NeverRotated ==
    [][vault # NoVault => vault' \in {vault, NoVault}]_vars

----------------------------------------------------------------------------
(* Claims on SpecForm: the geofence *)

\* C25: the geofence check reports a valid reservoir only when the verdict of
\* the remote answer is VALID (an INVALID verdict, a missing verdict and a
\* failed call give isValidReservoir = false), and the entry form is shown
\* only for a location verified in that way.
C25_ValidOnlyOnVALID ==
    LET r == dash.form.lastReply
        saysValid == /\ r.kind = "text" /\ r.verdict # NoVerdict
                     /\ toUpperCase(trim(r.verdict)) = VALID
    IN /\ (r.kind # "none" /\ verifyLocationAndFetchDetails(r).isValidReservoir)
            => saysValid
       /\ EntryFormShown(dash) => saysValid

----------------------------------------------------------------------------
(* Claims on SpecDash: who creates and deletes records *)

\* C24: addEntry is called only for a user whose role is DATA_ENTRY_WORKER or
\* SUPER_ADMIN; deleteEntry is called only for a user whose role is
\* SUPER_ADMIN or ADMIN, and only in a step in which the user answered the
\* confirmation dialog with yes.
C24_RoleGates ==
    /\ [](/\ lastCall.op = "addEntry"
               => dash.role \in {DATA_ENTRY_WORKER, SUPER_ADMIN}
          /\ lastCall.op = "deleteEntry"
               => dash.role \in {SUPER_ADMIN, ADMIN})
    /\ [][(lastCall' # lastCall /\ lastCall'.op = "deleteEntry")
             => dash'.confirmed = "yes"]_vars

\* a super admin has created a record and, later, confirmed the deletion of a
\* listed record: the reload after the deletion is under way
C24_Witness ==
    /\ dash.role = SUPER_ADMIN
    /\ lastCall.op = "deleteEntry"
    /\ lastCall.returned
    /\ dash.confirmed = "yes"
    /\ Awaiting(dash, "afterDelete")

----------------------------------------------------------------------------
(* Claims on Spec: the biometric gate *)

\* C26: analyzeFaceForAccess always returns a verdict: authorized exactly
\* when the remote answer says so, and not authorized, with a reason, when
\* the call fails, answers without text or answers with unreadable text. A
\* gate step on a verdict that is not authorized starts no sign-in or
\* sign-up and changes neither vault, accounts nor session.
C26_GateFailsClosed ==
    [][\A t \in BagToSet(tasks), reply \in GateReplies :
          (VerifyGate(t, reply) \/ EnrollGate(t, reply)) =>
             LET a == analyzeFaceForAccess(reply) IN
             /\ a.authorized <=> reply = "authorized"
             /\ ~a.authorized => a.reason \notin {"", Null}
             /\ reply # "authorized" =>
                   /\ tasks' = Settled(tasks, t)
                   /\ UNCHANGED <<vault, accounts, session, nextCred, currentUser>>]_vars

\* an enrollment whose gate call failed: the form shows the reason the gate
\* returned and nothing was registered
C26_Witness ==
    /\ auth.error = "Face Enrollment Failed: Biometric Service Unavailable. Check connection."
    /\ auth.mode = "ENROLL" /\ ~auth.isEnrollmentStarted
    /\ vault = NoVault
    /\ \A c \in CredIds \ {1} : accounts[c] = NoAccount

----------------------------------------------------------------------------
(* Claims on Spec: the scanning loop *)

\* C27: once Auth has left the Verify flow (Reset, or the unmount that tears
\* the camera and the loop down), the continuation of a verification still in
\* flight is ignored: the step changes neither the Auth state, the session nor
\* the current user, and it does not call the login-success handler.
C27_LateResolutionIgnored ==
    [][\A t \in BagToSet(tasks) :
          (/\ t.kind = "verify"
           /\ t.stale \/ auth.mode # "VERIFY"
           /\ \E reply \in GateReplies \cup {"ok", "error"}, seen \in PollPatterns :
                 VerifyGate(t, reply) \/ VerifySignIn(t, reply, seen))
          => /\ UNCHANGED <<auth, session, currentUser>>
             /\ \A u \in BagToSet(tasks') :
                   u.kind = "resolve" => CopiesIn(u, tasks') <= CopiesIn(u, tasks)]_vars

\* C28: the interval is no queue. An attempt is started only by a tick that
\* finds the loop armed for VERIFY, the guard free and a frame to capture, and
\* such a tick starts exactly one; a tick that is skipped leaves no trace that
\* a later step could replay.
C28_TicksDropped ==
    [][/\ InFlight(tasks', "verify") > InFlight(tasks, "verify")
            => /\ auth.scanInterval = "VERIFY" /\ ~auth.isScanning /\ CanCapture(auth)
               /\ Tick(TRUE)
               /\ InFlight(tasks', "verify") = InFlight(tasks, "verify") + 1
       /\ (auth'.isScanning /\ ~auth.isScanning)
            => /\ auth.scanInterval = "VERIFY" /\ CanCapture(auth)
               /\ Tick(TRUE)
       /\ (auth.scanInterval # Null /\ (TickSkips(auth) \/ ~CanCapture(auth)))
            => \A image \in BOOLEAN : Tick(image) => UNCHANGED vars]_vars

\* an attempt is outstanding while the interval is still armed: the ticks
\* that fall in this state are skipped
C28_Witness ==
    /\ auth.scanInterval = "VERIFY"
    /\ auth.isScanning
    /\ CanCapture(auth)
    /\ InFlight(tasks, "verify") = 1

\* C29: every verification attempt the scan loop starts finds the vault
\* populated: faceLogin never fails with "Device not enrolled", also not
\* after a Reset that is followed by the start of an enrollment.
C29_NeverNotEnrolled ==
    console # "Device not enrolled. Please perform One-Time Setup."

----------------------------------------------------------------------------
(* Claims on SpecVerify: no lockout *)

\* C30: the Verify flow has no attempt counter and no lockout. A failed
\* attempt of the mounted screen leaves the interval armed and releases the
\* guard, however many failed before it; and when the answers that let an
\* attempt through do not stay away for ever, a Verify screen whose loop is
\* armed leads to AUTHENTICATED, unless the user resets the device.
C30_NoLockout ==
    /\ [][\A t \in BagToSet(tasks) :
             (/\ t.kind = "verify" /\ ~t.stale
              /\ \/ \E reply \in GateReplies \ {"authorized"} : VerifyGate(t, reply)
                 \/ \E seen \in PollPatterns : VerifySignIn(t, "error", seen))
             => /\ auth'.scanInterval = auth.scanInterval
                /\ ~auth'.isScanning
                /\ auth'.mode = auth.mode]_vars
    /\ (auth.mounted /\ auth.mode = "VERIFY" /\ auth.scanInterval = "VERIFY")
          ~> (currentUser # NoUser \/ auth.mode = "ENROLL")

\* a sign-in that failed on the running Verify screen: the loop is armed and
\* the guard free for the next tick
C30_Witness ==
    /\ console = "Biometric Token Corrupted. Please Re-Enroll."
    /\ auth.mounted /\ auth.mode = "VERIFY"
    /\ auth.scanInterval = "VERIFY" /\ ~auth.isScanning
    /\ CanCapture(auth)
    /\ CanUnlock(vault)
    /\ accounts[1] # NoMeta
    /\ tasks = EmptyBag

----------------------------------------------------------------------------
(* Claims on SpecData: what the operations leave alone *)

\* sub is seq with some elements left out, the others in their order
RECURSIVE IsSubSeq(_, _)
IsSubSeq(sub, seq) ==
    IF sub = <<>> THEN TRUE
    ELSE IF seq = <<>> THEN FALSE
    ELSE IF Head(sub) = Head(seq) THEN IsSubSeq(Tail(sub), Tail(seq))
    ELSE IsSubSeq(sub, Tail(seq))

----------------------------------------------------------------------------
(* Claims on Spec: how a launch reaches the dashboard *)

\* the promises in flight of one kind at one step of their function
AtPc(ts, kind, pc) ==
    BagCardinality([t \in {x \in BagToSet(ts) : x.kind = kind /\ x.pc = pc} |-> ts[t]])

\* C32 (as stated): a user is signed in only by the completion of a login
\* that a gate verdict of authorized started in this launch.
C32_OnlyAfterGate ==
    [][(currentUser = NoUser /\ currentUser' # NoUser) =>
          AtPc(tasks', "resolve", "profile") < AtPc(tasks, "resolve", "profile")]_vars

\* C32 (amended): a user is signed in either by the launch's session check,
\* which restores a session an earlier launch left and calls no gate, or by
\* the completion of handleLoginSuccess; that is only started by a sign-in
\* that succeeded, a sign-in only by a gate verdict of authorized (Verify) or
\* by the sign-up that such a verdict started (Enroll), and a gate call only
\* from the Verify or the Enroll screen.
C32_GateOrSession ==
    [][/\ (currentUser = NoUser /\ currentUser' # NoUser) =>
             \/ loading /\ session # 0 /\ tasks' = tasks
             \/ ~loading /\ AtPc(tasks', "resolve", "profile") < AtPc(tasks, "resolve", "profile")
       /\ AtPc(tasks', "resolve", "profile") > AtPc(tasks, "resolve", "profile") =>
             \/ AtPc(tasks', "verify", "signin") < AtPc(tasks, "verify", "signin")
             \/ AtPc(tasks', "enroll", "signin") < AtPc(tasks, "enroll", "signin")
       /\ AtPc(tasks', "verify", "signin") > AtPc(tasks, "verify", "signin") =>
             AtPc(tasks', "verify", "gate") < AtPc(tasks, "verify", "gate")
       /\ AtPc(tasks', "enroll", "signin") > AtPc(tasks, "enroll", "signin") =>
             AtPc(tasks', "enroll", "signup") < AtPc(tasks, "enroll", "signup")
       /\ AtPc(tasks', "enroll", "signup") > AtPc(tasks, "enroll", "signup") =>
             AtPc(tasks', "enroll", "gate") < AtPc(tasks, "enroll", "gate")
       /\ \A t \in BagToSet(tasks) :
             (t.pc = "gate" /\ tasks' # tasks /\ tasks' # Settled(tasks, t)) =>
                \A reply \in GateReplies :
                   (VerifyGate(t, reply) \/ EnrollGate(t, reply)) => reply = "authorized"
       /\ AtPc(tasks', "verify", "gate") > AtPc(tasks, "verify", "gate") =>
             auth.mounted /\ auth.scanInterval = "VERIFY"
       /\ AtPc(tasks', "enroll", "gate") > AtPc(tasks, "enroll", "gate") =>
             auth.mounted /\ auth.mode = "ENROLL"
      ]_vars

\* a device with nothing to restore (no account of an earlier launch) whose
\* user is signed in: the enrollment's gate call was authorized
C32_Witness ==
    /\ ~loading
    /\ accounts[1] = NoAccount
    /\ currentUser # NoUser
    /\ session = currentUser.id

----------------------------------------------------------------------------
(* Claims on Spec: after a successful faceLogin or enrollDevice *)

----------------------------------------------------------------------------
(* Claims on Spec: what the vault holds *)

\* C34: whenever the vault holds a credential pair, that pair is registered
\* with the remote auth service; the vault is written only by the step in
\* which signUp returned a user, and with the pair of that very sign-up.
C34_VaultHoldsRegisteredPair ==
    /\ [](CanUnlock(vault) => Registered(Unlock(vault)))
    /\ [][(vault' # vault /\ vault' # NoVault) =>
             \E t \in BagToSet(tasks), reply \in SignUpReplies :
                /\ EnrollSignUp(t, reply)
                /\ signUp(reply) = Null
                /\ accounts[t.cred] = NoAccount
                /\ accounts'[t.cred] # NoAccount
                /\ vault' = VaultData(Credentials(t.cred))]_vars

\* the pair of a sign-up that has just succeeded is in the vault, the sign-in
\* that follows still in flight
C34_Witness ==
    /\ vault = VaultData(Credentials(2))
    /\ accounts[2] # NoAccount
    /\ \E t \in BagToSet(tasks) : t.kind = "enroll" /\ t.pc = "signin" /\ t.cred = 2
    /\ session = 0

----------------------------------------------------------------------------
(* Claims on Spec: the end of an enrollment attempt *)

\* C35: once an enrollment attempt has ended without a signed-in user (nothing
\* of it is in flight any more), the Enroll screen is back on the enrollment
\* form, enrollment not started and not loading, so that the next attempt can
\* be started from the form.
C35_BackToForm ==
    (/\ ~loading
     /\ currentUser = NoUser
     /\ auth.mounted /\ auth.mode = "ENROLL"
     /\ tasks = EmptyBag)
    => (~auth.isEnrollmentStarted /\ ~auth.isLoading)

----------------------------------------------------------------------------
(* Claims on SpecData: reads after a write *)

\* C36: a getEntries that follows a deleteEntry(id) which has returned (no
\* addEntry in between) returns no record of that id, whether it is served
\* by the remote database or by the local cache.
C36_DeletedStaysGone ==
    [][(/\ lastCall.op = "deleteEntry" /\ lastCall.returned
        /\ lastCall'.op = "getEntries")
       => \A e \in Range(lastCall'.data) : e.id # lastCall.entry.id]_vars

\* C37: a getEntries that follows an addEntry(record) which has returned (no
\* deleteEntry in between) returns that record, whether it is served by the
\* remote database or by the local cache.
C37_AddedIsRead ==
    [][(/\ lastCall.op = "addEntry" /\ lastCall.returned
        /\ lastCall'.op = "getEntries")
       => lastCall.entry \in Range(lastCall'.data)]_vars

----------------------------------------------------------------------------
(* Claims on Spec: logout *)

\* C38: a logout ends the session and signs the user out, and leaves the
\* vault and the accounts as they were; on an enrolled device the
\* authentication screen it brings up is in VERIFY mode, not ENROLL, and the
\* next login attempt reads the pair the vault held before the logout.
C38_LogoutKeepsVault ==
    [][/\ (currentUser # NoUser /\ currentUser' = NoUser) =>
             /\ session' = 0
             /\ vault' = vault
             /\ accounts' = accounts
             /\ nextCred' = nextCred
             /\ tasks' = tasks
             /\ auth'.mounted
             /\ isDeviceEnrolled(vault) => auth'.mode = "VERIFY"
       /\ AtPc(tasks', "verify", "gate") > AtPc(tasks, "verify", "gate") =>
             /\ vault' = vault
             /\ tasks' = Started(tasks, [Task("verify", "gate") EXCEPT !.vault = vault])
      ]_vars

\* a device enrolled in this launch, logged out since, is on the Verify
\* screen and signing in again with the pair of its enrollment
C38_Witness ==
    /\ currentUser = NoUser /\ session = 0
    /\ auth.mounted /\ auth.mode = "VERIFY"
    /\ vault = VaultData(Credentials(2))
    /\ accounts[1] = NoAccount
    /\ \E t \in BagToSet(tasks) :
          t.kind = "verify" /\ t.pc = "signin" /\ Unlock(t.vault) = Credentials(2)

----------------------------------------------------------------------------
(* Claims on SpecForm: which coordinates a verification was for *)

\* C39: when the entry form is submitted, the location name and the verified
\* flag the record is built from were computed for the coordinates the form
\* holds: the late answer of a verification called with earlier coordinates
\* never opens the form for the coordinates of a later location request.
C39_VerifiedForTheseCoords ==
    [][(EntryFormShown(dash) /\ HandleSubmit /\ dash'.form.isSubmitting)
       => dash.form.detailsFor = "coords"]_vars

====
